---- MODULE Spec2Model ----
(***************************************************************************)
(* UpdateWP: the step pipeline that updates a WordPress installation.      *)
(* Two revisions of the program are modelled side by side:                 *)
(*   rev = "lib"   src/src/lib.rs   (main_loop and its handlers)           *)
(*   rev = "main"  src/src/main.rs  (main and its handlers)                *)
(* One action is one external invocation or filesystem operation of a      *)
(* handler; strings are sequences of tokens (a placeholder, a marker or a  *)
(* piece of text is one token).                                            *)
(* Spec       runs of up to MaxSteps steps from the default command line,   *)
(*            children that exit with status 0 when their output ends;      *)
(* SpecChild  runs of one step whose children exit with any status and may  *)
(*            outlive their standard output;                                *)
(* SpecPaths  runs of one step with other installation paths, templates,    *)
(*            stray-path lists and disks;                                   *)
(* SpecFair   the runs of Spec in which every operation finishes.           *)
(***************************************************************************)
EXTENDS Naturals, Sequences, FiniteSets, TLC

\* ------------------------------------------------------------ bounds
MaxSteps == 2
MaxItems == 2
MaxProcs == 2

\* ------------------------------------------------------------ domains
StepKinds == {"Core", "Plugins", "Themes", "Translations"}
Names == {"foo", "bar"}
Versions == {"6.0", "6.1"}
Revs == {"lib", "main"}
\* The names an exclusion list may hold (the reported lists hold any of Names).
Excludable == {"bar"}

\* Sequences over S of length at most n.
SeqsUpTo(S, n) == UNION {[1..k -> S] : k \in 0..n}

\* The Update record (name, version, update_version) of an item the tool reports.
Update(name) ==
    IF name = "foo"
    THEN [name |-> "foo", version |-> "1.0", update_version |-> "1.1"]
    ELSE [name |-> name, version |-> "2.0", update_version |-> "2.1"]

\* ------------------------------------------------------------ strings
JSON_START == "[{\""
JSON_END == "]"
EMPTY_ARRAY == "[]"
NOISE == "Deprecated: ..."
GARBAGE == "<html>"

\* str::replace: every occurrence of token `from` replaced by the tokens of `to`,
\* left to right, in one pass over `s` (the inserted text is not rescanned).
RECURSIVE replace(_, _, _)
replace(s, from, to) ==
    IF s = <<>> THEN <<>>
    ELSE IF Head(s) = from THEN to \o replace(Tail(s), from, to)
    ELSE <<Head(s)>> \o replace(Tail(s), from, to)

\* The index of the first JSON_START in s, 0 when there is none (str::find).
RECURSIVE find(_, _)
find(s, i) ==
    IF i > Len(s) THEN 0
    ELSE IF s[i] = JSON_START THEN i
    ELSE find(s, i + 1)

\* get_json: Some(the text from the first JSON_START on), or None.
None == <<"None">>

\* A faulty variant: only an output that starts with the marker is taken.
get_json_clean_only(string) ==
    IF string # <<>> /\ Head(string) = JSON_START THEN string ELSE None

get_json(string) ==
    IF string # <<>> /\ Head(string) = JSON_START THEN string
    ELSE IF find(string, 1) # 0 THEN SubSeq(string, find(string, 1), Len(string))
    ELSE None

\* Option::unwrap_or("[]")
unwrap_or(opt) == IF opt = None THEN <<EMPTY_ARRAY>> ELSE opt

\* serde_json::from_str::<Vec<_>>: the names of the array's objects, or an error.
\* A well-formed array is "[]" or JSON_START, one token per object, "]".
ParseError == <<"Err">>
from_str(text) ==
    IF text = <<EMPTY_ARRAY>> THEN <<>>
    ELSE IF /\ Len(text) >= 3
            /\ text[1] = JSON_START
            /\ text[Len(text)] = JSON_END
            /\ \A i \in 2..(Len(text) - 1) : text[i] \in Names
         THEN SubSeq(text, 2, Len(text) - 1)
         ELSE ParseError

\* The decoder of a list query's standard output.
\* lib.rs: from_str(get_json(stdout).unwrap_or("[]")); main.rs: from_str(stdout).
decode(rev, stdout) ==
    IF rev = "lib" THEN from_str(unwrap_or(get_json(stdout))) ELSE from_str(stdout)

\* What the external tool may print for a list query: optional leading text, then
\* nothing, "[]", a well-formed array of at most MaxItems objects or a broken one.
\* The leading text is a notice, or a notice that quotes a value starting like an
\* array of objects.
Payloads ==
    {<<>>, <<EMPTY_ARRAY>>, <<JSON_START, GARBAGE>>}
        \cup {<<JSON_START>> \o l \o <<JSON_END>> : l \in SeqsUpTo(Names, MaxItems) \ {<<>>}}
Leading == {<<>>, <<NOISE>>, <<NOISE, JSON_START, NOISE>>}
Outputs == {pre \o p : pre \in Leading, p \in Payloads}


\* ------------------------------------------------------------ configuration
WP == "{wordpress_path}"
STEP == "{step}"
TIME == "{unix_time}"
NOW == "<secs>"

\* The Cli of each revision with the command line's defaults for the fields the
\* pipeline only copies (lib.rs 207-240, main.rs 167-186).
Clis ==
    {[rev |-> r, steps |-> s, no_backup_database |-> nb, no_commit |-> nc,
      exclude_plugins |-> ep, exclude_themes |-> et,
      database_file_path |->
          IF r = "lib" THEN <<WP, "/../", TIME, ".", STEP, ".sql">>
          ELSE <<"../", TIME, ".", STEP, ".sql">>,
      remove_paths |->
          IF r = "lib" THEN << <<WP, "/$XDG_CACHE_HOME">> >>
          ELSE << <<"./$XDG_CACHE_HOME">> >>,
      wordpress_path |-> "./"] :
        r \in Revs, s \in SeqsUpTo(StepKinds, MaxSteps), nb \in BOOLEAN, nc \in BOOLEAN,
        ep \in SUBSET Excludable, et \in SUBSET Excludable}

\* ------------------------------------------------------------ state
VARIABLES
    cli,      \* the parsed command line, read-only
    idx,      \* how many entries of cli.steps the loop has consumed and finished
    started,  \* the steps whose handler was started, in order
    h,        \* the running handler's frame: its step, position and locals
    log,      \* the operations the running handler attempted, in order
    fs,       \* the stray paths that exist on disk
    result,   \* what the run returned to its caller
    env,      \* what the child processes of this run may do, read-only
    last,     \* how the last operation of log ended, and what it printed
    procs     \* how many children the run has spawned that have not exited yet

vars == <<cli, idx, started, h, log, fs, result, env, last, procs>>

Ok == "Ok"
Frame(pc) ==
    [step |-> "none", pc |-> pc, updates |-> <<>>, i |-> 0, active |-> <<>>,
     version |-> <<>>, new_version |-> <<>>, ret |-> Ok]
Running == [status |-> "running", error |-> Ok]

\* An attempted operation: what was invoked, for which item ("-" for the step) and
\* with which argument (a path, a list of names, a message, a query's answer).
Ev(op, item, arg) == [op |-> op, item |-> item, arg |-> arg]

\* The remove_paths as the handlers pass them to remove.
\* lib.rs: each path with {wordpress_path} replaced; main.rs: the one fixed path.
RemovePaths(c) ==
    IF c.rev = "lib"
    THEN [k \in 1..Len(c.remove_paths) |-> replace(c.remove_paths[k], WP, <<c.wordpress_path>>)]
    ELSE c.remove_paths

Range(s) == {s[k] : k \in 1..Len(s)}

\* ------------------------------------------------------------ child processes
\* The children of a run: the statuses they may exit with, and whether one may
\* still be running when its standard output has reached its end.
Quiet == [codes |-> {"0"}, linger |-> {FALSE}]
Unruly == [codes |-> {"0", "1"}, linger |-> BOOLEAN]
Children == {[code |-> c, lingers |-> l] : c \in env.codes, l \in env.linger}

\* How an operation ended: a child's exit status and output, a child that could
\* not be spawned, a filesystem call's success or failure.
NoResponse == [outcome |-> "-", stdout |-> <<>>]
Exited(code, stdout) == [outcome |-> code, stdout |-> stdout]
SpawnError == [outcome |-> "spawn_error", stdout |-> <<>>]
IoOk == [outcome |-> "ok", stdout |-> <<>>]
IoError == [outcome |-> "io_error", stdout |-> <<>>]

\* A faulty variant: a non-zero exit status is an error.
stream_command_status(spawned, child) == spawned /\ child.code = "0"

\* stream_command: Ok(()) whenever the child was spawned; the lines of its piped
\* standard output are printed until the pipe ends, its exit status is never read.
stream_command(spawned, child) == spawned

\* Command::output(): Ok(Output) whenever the child was spawned; no caller reads
\* the Output's status.
output(spawned, code) == spawned

\* How a streamed command ended.
Streamed(spawned, child) == IF spawned THEN Exited(child.code, <<>>) ELSE SpawnError

\* The children alive after a streamed command: stream_command returns at the end
\* of the child's standard output and never waits for the child.
Alive(spawned, child) ==
    IF spawned /\ child.lingers /\ procs < MaxProcs THEN procs + 1 ELSE procs

\* A faulty variant: the loop starts without the probes.
StartOf_no_probes(c) == Frame("loop")

\* Where a run starts: main.rs at its probes, lib.rs's main_loop at the loop.
StartOf(c) == Frame(IF c.rev = "main" THEN "probe_wp" ELSE "loop")

\* The command lines of the runs: main.rs has no exclusion options; an exclusion
\* list is given only with its step (without the step it is never read).
Given ==
    {c \in Clis :
        /\ c.rev = "main" => c.exclude_plugins = {} /\ c.exclude_themes = {}
        /\ "Plugins" \notin Range(c.steps) => c.exclude_plugins = {}
        /\ "Themes" \notin Range(c.steps) => c.exclude_themes = {}}

Init ==
    /\ cli \in Given
    /\ idx = 0
    /\ started = <<>>
    /\ h = StartOf(cli)
    /\ log = <<>>
    /\ fs = {}
    /\ result = Running
    /\ env = Quiet
    /\ last = NoResponse
    /\ procs = 0


\* ------------------------------------------------------------ hooks
\* A faulty variant: the backup hook is built whatever the flag says.
HasBackup_always(c) == TRUE

\* Whether the backup hook is Some (lib.rs 249, 289, 325, 361; main.rs 199).
\* main.rs's backup_database flag is the negation of lib.rs's no_backup_database.
HasBackup(c) == ~c.no_backup_database

\* A faulty variant: the commit hook is built whatever the flag says.
HasCommit_always(c) == TRUE

\* Whether the commit hook is Some (lib.rs 269, 300, 336, 381; main.rs 199).
HasCommit(c) == ~c.no_commit

PerItem(step) == step \in {"Plugins", "Themes"}

\* The value substituted for {step} by a handler's backup closure.
StepName(step, item) ==
    CASE step = "Core" -> <<"update_core">>
      [] step = "Translations" -> <<"update_translations">>
      [] step = "Plugins" -> <<"update_plugin.", item>>
      [] OTHER -> <<"update_theme.", item>>

\* The path a backup closure hands to backup_database: the template after its
\* replace calls, in the closure's order.
BackupPath(c, step, item) ==
    LET first == IF c.rev = "lib"
                 THEN replace(c.database_file_path, WP, <<c.wordpress_path>>)
                 ELSE c.database_file_path
    IN replace(replace(first, STEP, StepName(step, item)), TIME, <<NOW>>)

\* The message a commit closure hands to git_add_commit (prefix and separator are
\* left out: they are copied into every message unchanged).
CommitMessage(step, item, old, new) ==
    CASE step = "Core" -> <<"Update WordPress Core", old, new>>
      [] step = "Translations" -> <<"Update translations">>
      [] step = "Plugins" ->
            <<"Update plugin", item, Update(item).version, Update(item).update_version>>
      [] OTHER ->
            <<"Update theme", item, Update(item).version, Update(item).update_version>>

\* The exclusion list a per-item handler passes to update_in_steps.
Exclude(c, step) == IF step = "Plugins" THEN c.exclude_plugins ELSE c.exclude_themes

\* A faulty variant: nothing is filtered out.
filter_nothing(updates, exclude) == updates

\* updates.iter().filter(|update| !exclude.contains(&update.name))
filter(updates, exclude) == SelectSeq(updates, LAMBDA name : name \notin exclude)

\* The items a per-item handler's loop visits, in order.
\* lib.rs filters by the exclusion list; main.rs visits every reported item.
Items(c, hh) ==
    IF c.rev = "lib" THEN filter(hh.updates, Exclude(c, hh.step)) ELSE hh.updates

\* The item the loop is at ("-" in the Core and Translations handlers).
Item == IF PerItem(h.step) /\ h.i >= 1 /\ h.i <= Len(Items(cli, h)) THEN Items(cli, h)[h.i] ELSE "-"

\* ------------------------------------------------------------ control flow
\* A faulty variant: main.rs's translation update starts at the themes.
Body_skip_core(c, step) ==
    CASE step = "Core" -> "list_active"
      [] step = "Translations" -> IF c.rev = "lib" THEN "lang_update" ELSE "lang_theme"
      [] OTHER -> "item_update"

\* The first operation of the mutating action of a handler.
Body(c, step) ==
    CASE step = "Core" -> "list_active"
      [] step = "Translations" -> IF c.rev = "lib" THEN "lang_update" ELSE "lang_core"
      [] OTHER -> "item_update"

\* `if let Some(backup_database_fn) = maybe_backup_database_fn { ...()? }`
BackupOrBody(c, step) == IF HasBackup(c) THEN "prefix" ELSE Body(c, step)

\* A handler returning r to the loop.
Return(hh, r) == [hh EXCEPT !.pc = "ret", !.ret = r]

\* A faulty variant: the loop stops after its first item.
NextItem_first_only(c, hh) ==
    IF hh.i + 1 > Len(Items(c, hh)) \/ hh.i >= 1 THEN Return(hh, Ok)
    ELSE [hh EXCEPT !.i = hh.i + 1, !.pc = BackupOrBody(c, hh.step)]

\* The per-item loop's next iteration, or its end.
NextItem(c, hh) ==
    IF hh.i + 1 > Len(Items(c, hh)) THEN Return(hh, Ok)
    ELSE [hh EXCEPT !.i = hh.i + 1, !.pc = BackupOrBody(c, hh.step)]

\* The end of one step's (or item's) backup, action, cleanup and commit.
Done(c, hh) == IF PerItem(hh.step) THEN NextItem(c, hh) ELSE Return(hh, Ok)

\* `if let Some(commit_fn) = maybe_commit_fn { ... }`
CommitOrDone(c, hh) ==
    IF HasCommit(c)
    THEN [hh EXCEPT !.pc = IF hh.step = "Core" THEN "version_new" ELSE "add"]
    ELSE Done(c, hh)

\* A faulty variant: the cleanup is left out.
AfterBody_no_cleanup(c, hh) == CommitOrDone(c, hh)

\* A faulty variant: the cleanup runs only before a commit.
AfterBody_cleanup_if_commit(c, hh) ==
    IF HasCommit(c) /\ (c.rev = "lib" \/ PerItem(hh.step)) THEN [hh EXCEPT !.pc = "remove"]
    ELSE CommitOrDone(c, hh)

\* What follows the mutating action. lib.rs: remove, in update and update_in_steps;
\* main.rs: the stray directory check in update only, none in update_core and
\* update_translations.
AfterBody(c, hh) ==
    IF c.rev = "lib" \/ PerItem(hh.step) THEN [hh EXCEPT !.pc = "remove"]
    ELSE CommitOrDone(c, hh)

\* The first operation of a handler.
Entry(c, step) ==
    CASE step = "Core" -> IF HasCommit(c) THEN "version_old" ELSE BackupOrBody(c, step)
      [] step = "Translations" -> BackupOrBody(c, step)
      [] OTHER -> "list"

\* A faulty variant: a failed operation of an item only ends that item.
Try_next_item(okay, err, next) ==
    IF okay THEN next
    ELSE IF PerItem(h.step) /\ h.i >= 1 THEN NextItem(cli, h) ELSE Return(h, err)

\* A faulty variant: after an update that failed the stray paths are still removed.
Try_then_cleanup(okay, err, next) ==
    IF okay THEN next
    ELSE IF h.pc \in {"core_update", "item_update", "lang_update"}
         THEN [h EXCEPT !.pc = "remove"]
         ELSE Return(h, err)

\* A faulty variant: the error of a filesystem call is dropped.
Try_ignore_io(okay, err, next) ==
    IF okay \/ err \in {"mkdir", "remove"} THEN next ELSE Return(h, err)

\* A faulty variant: an operation that failed is attempted once more.
Try_retry_once(okay, err, next) ==
    IF okay THEN next
    ELSE IF log # <<>> /\ log[Len(log)].op = err THEN Return(h, err) ELSE h

\* A faulty variant: after a core update that failed the plugins are reactivated.
Try_reactivate(okay, err, next) ==
    IF okay THEN next
    ELSE IF err = "core_update" THEN [h EXCEPT !.pc = "activate"] ELSE Return(h, err)

\* An operation's `?`: on failure the handler returns the error.
Try(okay, err, next) == IF okay THEN next ELSE Return(h, err)

Live == result.status = "running"

\* A faulty variant: the handler's error is dropped and the run goes on.
Propagate_ignore(hh) == result

\* The `?` on the handler's result in the loop: a handler's error is returned from
\* the run as it is, at once.
Propagate(hh) ==
    IF hh.pc = "ret" /\ hh.ret # Ok THEN [status |-> "err", error |-> hh.ret] ELSE result


\* ------------------------------------------------------------ the filesystem
\* A faulty variant: a listed path that does not exist is an error.
RECURSIVE remove_strict(_, _, _)
remove_strict(paths, files, denied) ==
    IF paths = <<>> THEN [ok |-> TRUE, files |-> files]
    ELSE IF Head(paths) \in files /\ Head(paths) \notin denied
         THEN remove_strict(Tail(paths), files \ {Head(paths)}, denied)
         ELSE [ok |-> FALSE, files |-> files]

\* remove: each listed path that exists is removed, in order; the first one that
\* exists and cannot be removed ends the call with an error.
RECURSIVE remove(_, _, _)
remove(paths, files, denied) ==
    IF paths = <<>> THEN [ok |-> TRUE, files |-> files]
    ELSE IF Head(paths) \in files
         THEN IF Head(paths) \in denied
              THEN [ok |-> FALSE, files |-> files]
              ELSE remove(Tail(paths), files \ {Head(paths)}, denied)
         ELSE remove(Tail(paths), files, denied)

\* ------------------------------------------------------------ startup
\* main.rs: `Command::new(..).arg("--version").output().expect(..)`, wp then git.
Probe ==
    /\ Live
    /\ h.pc \in {"probe_wp", "probe_git"}
    /\ \E spawned \in BOOLEAN, code \in env.codes :
        /\ log' = Append(log, Ev(h.pc, "-", <<>>))
        /\ last' = IF spawned THEN Exited(code, <<>>) ELSE SpawnError
        /\ IF output(spawned, code)
           THEN /\ h' = [h EXCEPT !.pc = IF h.pc = "probe_wp" THEN "probe_git" ELSE "loop"]
                /\ result' = result
           ELSE /\ h' = h
                /\ result' = [status |-> "panic", error |-> h.pc]
    /\ UNCHANGED <<cli, idx, started, fs, env, procs>>

\* ------------------------------------------------------------ the loop
\* The entries of steps whose handler has returned Ok, at the head of the loop.
Consumed == idx + (IF h.pc = "ret" THEN 1 ELSE 0)

\* A faulty variant: an entry equal to the one before it is skipped (steps deduplicated).
main_loop_next_dedup ==
    /\ Live
    /\ h.pc \in {"loop", "ret"}
    /\ LET n == IF /\ Consumed >= 1
                   /\ Consumed < Len(cli.steps)
                   /\ cli.steps[Consumed + 1] = cli.steps[Consumed]
                THEN Consumed + 1 ELSE Consumed
       IN /\ idx' = n
          /\ IF n < Len(cli.steps)
             THEN /\ started' = Append(started, cli.steps[n + 1])
                  /\ h' = [Frame(Entry(cli, cli.steps[n + 1])) EXCEPT !.step = cli.steps[n + 1]]
                  /\ log' = <<>>
                  /\ last' = NoResponse
                  /\ result' = result
             ELSE /\ result' = [status |-> "ok", error |-> Ok]
                  /\ UNCHANGED <<started, h, log, last>>
    /\ UNCHANGED <<cli, fs, env, procs>>

\* `for step in steps { match step { .. }?; } Ok(())`: at the start of the run and
\* after a handler returned Ok, the next entry's handler is started, or the loop
\* ends and the run returns Ok(()).
main_loop_next ==
    /\ Live
    /\ h.pc \in {"loop", "ret"}
    /\ idx' = Consumed
    /\ IF Consumed < Len(cli.steps)
       THEN /\ started' = Append(started, cli.steps[Consumed + 1])
            /\ h' = [Frame(Entry(cli, cli.steps[Consumed + 1]))
                        EXCEPT !.step = cli.steps[Consumed + 1]]
            /\ log' = <<>>
            /\ last' = NoResponse
            /\ result' = result
       ELSE /\ result' = [status |-> "ok", error |-> Ok]
            /\ UNCHANGED <<started, h, log, last>>
    /\ UNCHANGED <<cli, fs, env, procs>>

\* ------------------------------------------------------------ queries
\* get_wordpress_version, before the update (the captured `version`) and after it
\* (the message's new version).
get_wordpress_version ==
    /\ Live
    /\ h.pc \in {"version_old", "version_new"}
    /\ \E spawned \in BOOLEAN, code \in env.codes, v \in Versions :
        /\ log' = Append(log, Ev("version", "-", IF spawned THEN <<v>> ELSE <<>>))
        /\ last' = IF spawned THEN Exited(code, <<v>>) ELSE SpawnError
        /\ h' = Try(output(spawned, code), "version",
                    IF h.pc = "version_old"
                    THEN [h EXCEPT !.version = <<v>>, !.pc = BackupOrBody(cli, h.step)]
                    ELSE [h EXCEPT !.new_version = <<v>>, !.pc = "add"])
    /\ result' = Propagate(h')
    /\ UNCHANGED <<cli, idx, started, fs, env, procs>>

\* get_active_plugins: the query, then the decoding of its output.
get_active_plugins ==
    /\ Live
    /\ h.pc = "list_active"
    /\ \E spawned \in BOOLEAN, code \in env.codes, stdout \in Outputs :
        /\ log' = Append(log, Ev("plugin_list", "-", <<>>))
        /\ last' = IF spawned THEN Exited(code, stdout) ELSE SpawnError
        /\ h' = Try(output(spawned, code) /\ decode(cli.rev, stdout) # ParseError, "plugin_list",
                    [h EXCEPT !.active = decode(cli.rev, stdout), !.pc = "deactivate"])
    /\ result' = Propagate(h')
    /\ UNCHANGED <<cli, idx, started, fs, env, procs>>

\* The list query at the head of update_in_steps (main.rs: update).
list_updates ==
    /\ Live
    /\ h.pc = "list"
    /\ \E spawned \in BOOLEAN, code \in env.codes, stdout \in Outputs :
        /\ log' = Append(log, Ev("list", "-", <<>>))
        /\ last' = IF spawned THEN Exited(code, stdout) ELSE SpawnError
        /\ h' = Try(output(spawned, code) /\ decode(cli.rev, stdout) # ParseError, "list",
                    NextItem(cli, [h EXCEPT !.updates = decode(cli.rev, stdout), !.i = 0]))
    /\ result' = Propagate(h')
    /\ UNCHANGED <<cli, idx, started, fs, env, procs>>


\* ------------------------------------------------------------ backup
\* The backup closure up to ensure_path_prefix: the path is resolved and its
\* parent directory created.
ensure_path_prefix ==
    /\ Live
    /\ h.pc = "prefix"
    /\ \E okay \in BOOLEAN :
        /\ log' = Append(log, Ev("mkdir", Item, BackupPath(cli, h.step, Item)))
        /\ last' = IF okay THEN IoOk ELSE IoError
        /\ h' = Try(okay, "mkdir", [h EXCEPT !.pc = "export"])
    /\ result' = Propagate(h')
    /\ UNCHANGED <<cli, idx, started, fs, env, procs>>

\* backup_database's stream_command: `wp db export <path>`.
backup_database ==
    /\ Live
    /\ h.pc = "export"
    /\ \E spawned \in BOOLEAN, child \in Children :
        /\ log' = Append(log, Ev("export", Item, BackupPath(cli, h.step, Item)))
        /\ last' = Streamed(spawned, child)
        /\ procs' = Alive(spawned, child)
        /\ h' = Try(stream_command(spawned, child), "export", [h EXCEPT !.pc = Body(cli, h.step)])
    /\ result' = Propagate(h')
    /\ UNCHANGED <<cli, idx, started, fs, env>>

\* ------------------------------------------------------------ mutating actions
\* The stray paths an update command may leave behind.
Strays == SUBSET Range(RemovePaths(cli))

\* A faulty variant: the reactivation uses the plugins active after the deactivation (none).
PluginsArg_requery(hh, activate) == IF activate THEN <<>> ELSE hh.active

\* The plugins argument of activate_plugins: the list fetched before the update,
\* for the deactivation and for the reactivation.
PluginsArg(hh, activate) == hh.active

\* activate_plugins(.., false) before the core update, activate_plugins(.., true)
\* after it.
activate_plugins ==
    /\ Live
    /\ h.pc \in {"deactivate", "activate"}
    /\ \E spawned \in BOOLEAN, child \in Children :
        /\ log' = Append(log, Ev(h.pc, "-", PluginsArg(h, h.pc = "activate")))
        /\ last' = Streamed(spawned, child)
        /\ procs' = Alive(spawned, child)
        /\ h' = Try(stream_command(spawned, child), h.pc,
                    IF h.pc = "deactivate" THEN [h EXCEPT !.pc = "core_update"]
                    ELSE AfterBody(cli, h))
    /\ result' = Propagate(h')
    /\ UNCHANGED <<cli, idx, started, fs, env>>

\* `wp core update`
core_update ==
    /\ Live
    /\ h.pc = "core_update"
    /\ \E spawned \in BOOLEAN, child \in Children, made \in Strays :
        /\ log' = Append(log, Ev("core_update", "-", <<>>))
        /\ last' = Streamed(spawned, child)
        /\ procs' = Alive(spawned, child)
        /\ fs' = IF spawned THEN fs \cup made ELSE fs
        /\ h' = Try(stream_command(spawned, child), "core_update", [h EXCEPT !.pc = "activate"])
    /\ result' = Propagate(h')
    /\ UNCHANGED <<cli, idx, started, env>>

\* `wp <subcommand> update <name>` for the item the loop is at.
item_update ==
    /\ Live
    /\ h.pc = "item_update"
    /\ \E spawned \in BOOLEAN, child \in Children, made \in Strays :
        /\ log' = Append(log, Ev("item_update", Item, <<Item>>))
        /\ last' = Streamed(spawned, child)
        /\ procs' = Alive(spawned, child)
        /\ fs' = IF spawned THEN fs \cup made ELSE fs
        /\ h' = Try(stream_command(spawned, child), "item_update", AfterBody(cli, h))
    /\ result' = Propagate(h')
    /\ UNCHANGED <<cli, idx, started, env>>

\* The translation update: one `wp eval` in lib.rs, three `wp language ..
\* update` invocations (core, theme, plugin) in main.rs.
translations_update ==
    /\ Live
    /\ h.pc \in {"lang_update", "lang_core", "lang_theme", "lang_plugin"}
    /\ \E spawned \in BOOLEAN, child \in Children, made \in Strays :
        /\ log' = Append(log, Ev(h.pc, "-", <<>>))
        /\ last' = Streamed(spawned, child)
        /\ procs' = Alive(spawned, child)
        /\ fs' = IF spawned THEN fs \cup made ELSE fs
        /\ h' = Try(stream_command(spawned, child), h.pc,
                    CASE h.pc = "lang_core" -> [h EXCEPT !.pc = "lang_theme"]
                      [] h.pc = "lang_theme" -> [h EXCEPT !.pc = "lang_plugin"]
                      [] OTHER -> AfterBody(cli, h))
    /\ result' = Propagate(h')
    /\ UNCHANGED <<cli, idx, started, env>>

\* ------------------------------------------------------------ cleanup
\* remove(&remove_paths) (main.rs: the check and removal of the stray directory).
cleanup ==
    /\ Live
    /\ h.pc = "remove"
    /\ \E denied \in Strays :
        LET r == remove(RemovePaths(cli), fs, denied) IN
        /\ log' = Append(log, Ev("remove", Item, <<>>))
        /\ last' = IF r.ok THEN IoOk ELSE IoError
        /\ fs' = r.files
        /\ h' = Try(r.ok, "remove", CommitOrDone(cli, h))
    /\ result' = Propagate(h')
    /\ UNCHANGED <<cli, idx, started, env, procs>>

\* ------------------------------------------------------------ commit
\* A faulty variant: the version captured before the update is used as the new version too.
Message_stale(hh, item) ==
    CommitMessage(hh.step, item,
                  IF hh.step = "Core" THEN hh.version[1] ELSE "-",
                  IF hh.step = "Core" THEN hh.version[1] ELSE "-")

\* The message the commit closure resolves for the step or item at hand.
Message(hh, item) ==
    CommitMessage(hh.step, item,
                  IF hh.step = "Core" THEN hh.version[1] ELSE "-",
                  IF hh.step = "Core" THEN hh.new_version[1] ELSE "-")

\* A faulty variant: every revision returns the commit hook's error.
CommitFailed_propagate(c, hh, err) == Return(hh, err)

\* What a failed git_add_commit does to the handler. lib.rs: `commit_fn()?`
\* returns the error; main.rs: `let _ = git_add_commit(..)` drops it.
CommitFailed(c, hh, err) == IF c.rev = "lib" THEN Return(hh, err) ELSE Done(c, hh)

\* git_add_commit's first stream_command: `git add .`
git_add ==
    /\ Live
    /\ h.pc = "add"
    /\ \E spawned \in BOOLEAN, child \in Children :
        /\ log' = Append(log, Ev("add", Item, Message(h, Item)))
        /\ last' = Streamed(spawned, child)
        /\ procs' = Alive(spawned, child)
        /\ h' = IF stream_command(spawned, child) THEN [h EXCEPT !.pc = "commit"]
                ELSE CommitFailed(cli, h, "add")
    /\ result' = Propagate(h')
    /\ UNCHANGED <<cli, idx, started, fs, env>>

\* git_add_commit's second stream_command: `git commit -m <message>`
git_commit ==
    /\ Live
    /\ h.pc = "commit"
    /\ \E spawned \in BOOLEAN, child \in Children :
        /\ log' = Append(log, Ev("commit", Item, Message(h, Item)))
        /\ last' = Streamed(spawned, child)
        /\ procs' = Alive(spawned, child)
        /\ h' = IF stream_command(spawned, child) THEN Done(cli, h)
                ELSE CommitFailed(cli, h, "commit")
    /\ result' = Propagate(h')
    /\ UNCHANGED <<cli, idx, started, fs, env>>

\* ------------------------------------------------------------ specification
Next ==
    \/ Probe
    \/ main_loop_next
    \/ get_wordpress_version
    \/ get_active_plugins
    \/ list_updates
    \/ ensure_path_prefix
    \/ backup_database
    \/ activate_plugins
    \/ core_update
    \/ item_update
    \/ translations_update
    \/ cleanup
    \/ git_add
    \/ git_commit

Spec == Init /\ [][Next]_vars

\* The runs of Spec in which every operation that can be taken is taken in the
\* end: every external command and filesystem call finishes and the loop goes on.
SpecFair == Spec /\ WF_vars(Next)

\* ------------------------------------------------------------ unruly children
\* A child that outlived its stream_command exits.
child_exit ==
    /\ procs > 0
    /\ procs' = procs - 1
    /\ UNCHANGED <<cli, idx, started, h, log, fs, result, env, last>>

\* The runs of at most one step whose children may exit with any status and may
\* outlive their standard output.
InitChild ==
    /\ cli \in {c \in Clis : /\ Len(c.steps) <= 1
                             /\ c.exclude_plugins = {}
                             /\ c.exclude_themes = {}}
    /\ idx = 0
    /\ started = <<>>
    /\ h = StartOf(cli)
    /\ log = <<>>
    /\ fs = {}
    /\ result = Running
    /\ env = Unruly
    /\ last = NoResponse
    /\ procs = 0

NextChild ==
    \/ Next
    \/ child_exit

SpecChild == InitChild /\ [][NextChild]_vars

\* ------------------------------------------------------------ other command lines
\* Values of --wordpress-path, --database-file-path and --remove-paths other than
\* the defaults: an installation path that reads like a placeholder, a template
\* that repeats placeholders, lists of up to two stray paths.
WordpressPaths == {"./", STEP, TIME}
Templates == {<<WP, "/../", TIME, ".", STEP, ".sql">>, <<STEP, "/", WP, ".", STEP, TIME>>}
StrayTemplates == {<<WP, "/$XDG_CACHE_HOME">>, <<WP, "/.cache">>}
Unlisted == <<"./uploads">>

OneStep == {c \in Clis : /\ Len(c.steps) <= 1
                         /\ c.exclude_plugins = {}
                         /\ c.exclude_themes = {}}

\* lib.rs with another installation path and template, or with another list of
\* stray paths; main.rs as it is.
ClisWide ==
    {c \in OneStep : c.rev = "main"}
        \cup {[c EXCEPT !.wordpress_path = w, !.database_file_path = t] :
                 c \in {d \in OneStep : d.rev = "lib"}, w \in WordpressPaths, t \in Templates}
        \cup {[c EXCEPT !.remove_paths = rp] :
                 c \in {d \in OneStep : d.rev = "lib"}, rp \in SeqsUpTo(StrayTemplates, 2)}

\* The runs of at most one step from any of these command lines, on a disk that
\* holds any of the listed paths and possibly a path no list names.
InitPaths ==
    /\ cli \in ClisWide
    /\ idx = 0
    /\ started = <<>>
    /\ h = StartOf(cli)
    /\ log = <<>>
    /\ fs \in SUBSET (Range(RemovePaths(cli)) \cup {Unlisted})
    /\ result = Running
    /\ env = Quiet
    /\ last = NoResponse
    /\ procs = 0

SpecPaths == InitPaths /\ [][Next]_vars


\* ------------------------------------------------------------ properties
Pos == 1..Len(log)
HandlerFailed == h.pc = "ret" /\ h.ret # Ok
HandlerOk == h.pc = "ret" /\ h.ret = Ok
InHandler == h.step # "none" /\ result.status # "ok"

\* C1: when a handler has returned an error the run has returned that same
\* error, and from then on no handler is started and no operation is attempted:
\* nothing changes any more.
C1_ErrorAbortsRun ==
    /\ [](HandlerFailed => result = [status |-> "err", error |-> h.ret])
    /\ [][result.status = "err" => UNCHANGED vars]_vars

\* A run that returned its first handler's error with an entry of steps left over.
C1_Witness ==
    /\ result.status = "err"
    /\ result.error = h.ret
    /\ Len(started) = 1
    /\ Len(cli.steps) = 2
    /\ Len(log) >= 2

\* C2: the handlers started are the entries of steps, in order and one per entry
\* (duplicates included); a handler is started only at the start of the loop or
\* when the one before it has returned Ok; a run that returned Ok ran them all, and
\* a run returns an error only when a handler did.
C2_StepsInOrderOnce ==
    /\ [](/\ Len(started) <= Len(cli.steps)
          /\ started = SubSeq(cli.steps, 1, Len(started))
          /\ Len(started) = idx + (IF InHandler THEN 1 ELSE 0)
          /\ result.status = "ok" => started = cli.steps /\ idx = Len(cli.steps)
          /\ result.status = "err" => HandlerFailed)
    /\ [][started' # started =>
            /\ h.pc \in {"loop", "ret"}
            /\ h.ret = Ok
            /\ started' = Append(started, cli.steps[Len(started) + 1])]_vars

\* A successful run of a sequence that lists the same step twice.
C2_Witness ==
    /\ result.status = "ok"
    /\ Len(cli.steps) = 2
    /\ cli.steps[1] = cli.steps[2]
    /\ started = cli.steps
    /\ Len(log) >= 1


\* The elements of L whose name is not in E, in L's order.
RECURSIVE Keep(_, _)
Keep(L, E) ==
    IF L = <<>> THEN <<>>
    ELSE IF Head(L) \in E THEN Keep(Tail(L), E)
    ELSE <<Head(L)>> \o Keep(Tail(L), E)

IsPrefix(a, b) == Len(a) <= Len(b) /\ a = SubSeq(b, 1, Len(a))

\* The operations of the log with the item each was for.
Calls == [p \in Pos |-> <<log[p].op, log[p].item>>]

\* C3: in a Plugins or Themes step no operation is attempted for an item of the
\* step's exclusion list, and no path, name argument or message mentions one.
C3_ExcludedNeverTouched ==
    PerItem(h.step) =>
        \A p \in Pos :
            /\ log[p].item \notin Exclude(cli, h.step)
            /\ \A k \in 1..Len(log[p].arg) : log[p].arg[k] \notin Exclude(cli, h.step)

\* The Plugins step with exclusion [bar] and candidates foo, bar: foo alone was
\* backed up, updated, cleaned up and committed.
C3_Witness ==
    /\ cli.rev = "lib"
    /\ h.step = "Plugins"
    /\ cli.exclude_plugins = {"bar"}
    /\ h.updates = <<"foo", "bar">>
    /\ HandlerOk
    /\ Calls = <<<<"list", "-">>, <<"mkdir", "foo">>, <<"export", "foo">>,
                 <<"item_update", "foo">>, <<"remove", "foo">>, <<"add", "foo">>,
                 <<"commit", "foo">>>>

\* The operations of one item of update_in_steps when none of them fails.
ItemCalls(c, item) ==
    (IF HasBackup(c) THEN <<<<"mkdir", item>>, <<"export", item>>>> ELSE <<>>)
        \o <<<<"item_update", item>>, <<"remove", item>>>>
        \o (IF HasCommit(c) THEN <<<<"add", item>>, <<"commit", item>>>> ELSE <<>>)

RECURSIVE AllItemCalls(_, _)
AllItemCalls(c, items) ==
    IF items = <<>> THEN <<>>
    ELSE ItemCalls(c, Head(items)) \o AllItemCalls(c, Tail(items))

\* C4: while nothing has failed, the operations of update_in_steps are the list
\* query and then, item after item, all the operations of each element of the
\* reported list L whose name is not excluded, in L's order; when the handler
\* returns Ok every such item was processed.
C4_FilteredInOrderOneByOne ==
    (cli.rev = "lib" /\ PerItem(h.step) /\ h.ret = Ok /\ log # <<>>) =>
        LET want == <<<<"list", "-">>>>
                        \o AllItemCalls(cli, Keep(h.updates, Exclude(cli, h.step)))
        IN /\ IsPrefix(Calls, want)
           /\ HandlerOk => Calls = want

\* Two reported items, both updated, in the reported order.
C4_Witness ==
    /\ cli.rev = "lib"
    /\ h.step = "Themes"
    /\ h.updates = <<"bar", "foo">>
    /\ cli.exclude_themes = {}
    /\ HandlerOk
    /\ \E p, q \in Pos :
        /\ p < q
        /\ Calls[p] = <<"item_update", "bar">>
        /\ Calls[q] = <<"item_update", "foo">>

\* C5: in lib.rs's handlers a commit directly follows the staging of the same step
\* or item, the staging follows the cleanup (in Core, the cleanup and the version
\* query), the cleanup directly follows the end of the mutating action, and with
\* backups enabled the mutating action directly follows the backup export.
C5_BackupActionCleanupCommit ==
    cli.rev = "lib" =>
        \A p \in Pos :
            LET e == log[p]
                Before(n, ops) ==
                    p > n /\ log[p - n].op \in ops /\ log[p - n].item = e.item
            IN /\ e.op = "commit" => Before(1, {"add"})
               /\ e.op = "add" =>
                    IF h.step = "Core"
                    THEN Before(1, {"version"}) /\ Before(2, {"remove"})
                    ELSE Before(1, {"remove"})
               /\ e.op = "remove" => Before(1, {"item_update", "activate", "lang_update"})
               /\ (HasBackup(cli) /\ e.op \in {"item_update", "plugin_list", "lang_update"})
                    => Before(1, {"export"})
               /\ e.op = "export" => Before(1, {"mkdir"})

\* A Translations step with both hooks: backup, update, cleanup, commit.
C5_Witness ==
    /\ cli.rev = "lib"
    /\ h.step = "Translations"
    /\ HandlerOk
    /\ Calls = <<<<"mkdir", "-">>, <<"export", "-">>, <<"lang_update", "-">>,
                 <<"remove", "-">>, <<"add", "-">>, <<"commit", "-">>>>


\* C6 as stated: once a per-item handler has returned, every item update it
\* attempted was followed by the cleanup.
C6_CleanupAfterEveryAttempt ==
    h.pc = "ret" =>
        \A p \in Pos :
            log[p].op = "item_update" => p < Len(log) /\ log[p + 1].op = "remove"

\* C6, amended: an item update is directly followed by the cleanup of the same
\* item, with or without a commit hook and whatever stray paths exist, unless the
\* update command could not be spawned, in which case the handler has returned
\* that error.
C6_CleanupAfterSpawnedUpdate ==
    \A p \in Pos :
        log[p].op = "item_update" =>
            IF p < Len(log)
            THEN log[p + 1].op = "remove" /\ log[p + 1].item = log[p].item
            ELSE \/ h.pc = "remove" /\ ENABLED cleanup
                 \/ h.pc = "ret" /\ h.ret = "item_update"

\* The cleanup ran after an item's update in a run without a commit hook.
C6_Witness ==
    /\ PerItem(h.step)
    /\ cli.no_commit
    /\ HandlerOk
    /\ Len(log) >= 2
    /\ log[Len(log) - 1].op = "item_update"
    /\ log[Len(log)].op = "remove"
    /\ log[Len(log)].item = log[Len(log) - 1].item

\* C7: with backups disabled no backup path is resolved, no parent directory is
\* created and no export is invoked, in any handler of either revision.
C7_NoBackupWhenDisabled ==
    cli.no_backup_database => \A p \in Pos : log[p].op \notin {"mkdir", "export"}

\* A run with backups disabled whose second handler updated an item.
C7_Witness ==
    /\ cli.no_backup_database
    /\ Len(started) = 2
    /\ HandlerOk
    /\ \E p \in Pos : log[p].op = "item_update"

\* C8: with commits disabled no version is queried for a message, no message is
\* resolved and neither `git add` nor `git commit` is attempted.
C8_NoCommitWhenDisabled ==
    cli.no_commit => \A p \in Pos : log[p].op \notin {"version", "add", "commit"}

\* A Core handler that ran to its end with commits disabled.
C8_Witness ==
    /\ cli.no_commit
    /\ h.step = "Core"
    /\ HandlerOk
    /\ \E p \in Pos : log[p].op = "activate"

\* The operations the Core scenario lists, as the log has them.
CoreCalls ==
    SelectSeq(log, LAMBDA e : e.op \in {"version", "export", "deactivate", "core_update",
                                        "activate", "commit"})

\* C9: in the Core handler with both hooks the listed operations happen in the
\* order version query, export, deactivate, core update, activate, version query,
\* commit; the export's path holds the step name, both plugin invocations get the
\* fetched list, and the message's old and new version are the answers of the
\* first and of the second version query.
C9_CoreCallSequence ==
    (h.step = "Core" /\ HasBackup(cli) /\ HasCommit(cli)) =>
        LET s == CoreCalls IN
        /\ IsPrefix([k \in 1..Len(s) |-> s[k].op],
                    <<"version", "export", "deactivate", "core_update", "activate",
                      "version", "commit">>)
        /\ HandlerOk => Len(s) >= 6
        /\ (HandlerOk /\ cli.rev = "lib") => Len(s) = 7
        /\ Len(s) >= 2 => "update_core" \in Range(s[2].arg)
        /\ Len(s) >= 3 => s[3].arg = h.active
        /\ Len(s) >= 5 => s[5].arg = h.active
        /\ Len(s) = 7 => s[7].arg = <<"Update WordPress Core", s[1].arg[1], s[6].arg[1]>>

\* The scenario: one active plugin foo, version 6.0 before and 6.1 after.
C9_Witness ==
    /\ h.step = "Core"
    /\ HandlerOk
    /\ h.active = <<"foo">>
    /\ Len(CoreCalls) = 7
    /\ CoreCalls[1].arg = <<"6.0">>
    /\ CoreCalls[6].arg = <<"6.1">>
    /\ CoreCalls[7].arg = <<"Update WordPress Core", "6.0", "6.1">>

\* C10: the list passed to the reactivation is the list that was fetched and
\* passed to the deactivation before the core update.
C10_ReactivateSameList ==
    \A p \in Pos :
        log[p].op = "activate" =>
            /\ log[p].arg = h.active
            /\ \E q \in 1..(p - 1) :
                /\ log[q].op = "deactivate"
                /\ log[q].arg = log[p].arg
                /\ \E u \in (q + 1)..(p - 1) : log[u].op = "core_update"

\* A Core handler that returned Ok after reactivating two plugins.
C10_Witness ==
    /\ h.step = "Core"
    /\ HandlerOk
    /\ h.active = <<"foo", "bar">>
    /\ \E p \in Pos : log[p].op = "activate" /\ log[p].arg = <<"foo", "bar">>

\* ------------------------------------------------------------ translations
\* The external invocations among the attempted operations, by name (mkdir and
\* remove are filesystem calls of the program itself).
External == SelectSeq(log, LAMBDA e : e.op \notin {"mkdir", "remove"})
Ops(s) == [k \in 1..Len(s) |-> s[k].op]
ThreeUpdates == <<"lang_core", "lang_theme", "lang_plugin">>
NoHooks == cli.no_backup_database /\ cli.no_commit

LastOp == IF log = <<>> THEN "-" ELSE log[Len(log)].op
Failure == last.outcome \in {"spawn_error", "io_error"}
ItemOps == {"mkdir", "export", "item_update", "remove", "add", "commit"}

\* C12: in a Plugins or Themes step of lib.rs, when the backup, update, cleanup
\* or commit of an item has failed, the handler has returned that operation's
\* error and the run with it; the log holds the operations of the items up to
\* that one and ends with the failed operation, and no operation is attempted
\* any more, for the remaining items or otherwise.
C12_ItemFailureEndsStep ==
    (cli.rev = "lib" /\ PerItem(h.step) /\ Failure /\ LastOp \in ItemOps) =>
        /\ HandlerFailed
        /\ h.ret = LastOp
        /\ result = [status |-> "err", error |-> LastOp]
        /\ h.i \in 1..Len(Items(cli, h))
        /\ log[Len(log)].item = Items(cli, h)[h.i]
        /\ IsPrefix(Calls, <<<<"list", "-">>>>
                              \o AllItemCalls(cli, SubSeq(Items(cli, h), 1, h.i)))
        /\ ~ENABLED Next

\* The cleanup of the first of two plugins failed: the second one was never
\* reached.
C12_Witness ==
    /\ cli.rev = "lib"
    /\ h.step = "Plugins"
    /\ Items(cli, h) = <<"foo", "bar">>
    /\ h.i = 1
    /\ LastOp = "remove"
    /\ Failure
    /\ HandlerFailed
    /\ \A p \in Pos : log[p].item # "bar"

\* ------------------------------------------------------------ children
StreamOps ==
    {"export", "deactivate", "core_update", "activate", "item_update", "lang_update",
     "lang_core", "lang_theme", "lang_plugin", "add", "commit"}

\* Some operation spawned a child in this step.
Spawns == Len(log') = Len(log) + 1 /\ last'.outcome \in {"0", "1"}

\* C13 as stated: every child the pipeline spawned has exited when the pipeline
\* goes on, so no child is spawned while an earlier one is still running.
C13_OneChildAtATime == [][Spawns => procs = 0]_vars

\* C14: a streamed command that was spawned and exited with a non-zero status is
\* no failure: the handler has not returned an error, the run has no error, the
\* handler is past that command, and while the run is not over its next operation
\* can be taken.
C14_NonZeroExitIsNoFailure ==
    (last.outcome = "1" /\ LastOp \in StreamOps) =>
        /\ h.ret = Ok
        /\ result.status \in {"running", "ok"}
        /\ h.pc # LastOp
        /\ Live => ENABLED Next

\* lib.rs: `git commit` exited with a non-zero status (nothing to commit) and the
\* handler returned Ok.
C14_Witness ==
    /\ cli.rev = "lib"
    /\ LastOp = "commit"
    /\ last.outcome = "1"
    /\ HandlerOk
    /\ Live

\* C15: in lib.rs, when an external executable could not be spawned, the handler
\* has returned that operation's error and the run with it, and nothing is
\* attempted any more: no further invocation and no cleanup.
C15_SpawnFailureAbortsRun ==
    (cli.rev = "lib" /\ last.outcome = "spawn_error") =>
        /\ HandlerFailed
        /\ h.ret = LastOp
        /\ result = [status |-> "err", error |-> LastOp]
        /\ ~ENABLED Next

\* lib.rs: the update of a plugin could not be spawned; the run ended with that
\* error and the item's cleanup never ran.
C15_Witness ==
    /\ cli.rev = "lib"
    /\ h.step = "Plugins"
    /\ LastOp = "item_update"
    /\ last.outcome = "spawn_error"
    /\ result = [status |-> "err", error |-> "item_update"]
    /\ \A p \in Pos : log[p].op # "remove"

\* ------------------------------------------------------------ the decoder
\* A well-formed array text and the names of its objects.
WellFormed(text) ==
    \/ text = <<EMPTY_ARRAY>>
    \/ /\ Len(text) >= 3
       /\ Head(text) = JSON_START
       /\ text[Len(text)] = JSON_END
       /\ \A i \in 2..(Len(text) - 1) : text[i] \in Names
ObjectsOf(text) == IF text = <<EMPTY_ARRAY>> THEN <<>> ELSE SubSeq(text, 2, Len(text) - 1)
Suffix(s, k) == SubSeq(s, k, Len(s))

\* The last operation was a list query whose child was spawned; what the handler
\* keeps of its output.
Queried == LastOp \in {"list", "plugin_list"} /\ last.outcome \in {"0", "1"}
Decoded == IF LastOp = "list" THEN h.updates ELSE h.active

\* An output no final part of which is a well-formed array.
NoPayload(stdout) == \A k \in 1..Len(stdout) : ~WellFormed(Suffix(stdout, k))

\* C16 as stated: in lib.rs, after a list query whose output holds no valid
\* payload, absent or unparseable, the handler has no error and no items, and the
\* run has no error.
C16_NoPayloadMeansNoItems ==
    (cli.rev = "lib" /\ Queried /\ NoPayload(last.stdout)) =>
        /\ h.ret = Ok
        /\ Decoded = <<>>
        /\ result.status # "err"

RECURSIVE Resolve(_, _, _, _)
Resolve(tpl, wp, step, time) ==
    IF tpl = <<>> THEN <<>>
    ELSE (CASE Head(tpl) = WP -> wp
            [] Head(tpl) = STEP -> step
            [] Head(tpl) = TIME -> time
            [] OTHER -> <<Head(tpl)>>) \o Resolve(Tail(tpl), wp, step, time)

\* C18 as stated: in lib.rs every backup path is its template with each
\* placeholder replaced once by its value and nothing inside a value replaced.
C18_NoResubstitution ==
    cli.rev = "lib" =>
        \A p \in Pos :
            log[p].op \in {"mkdir", "export"} =>
                log[p].arg = Resolve(cli.database_file_path, <<cli.wordpress_path>>,
                                     StepName(h.step, log[p].item), <<NOW>>)

\* C19: a call of remove creates nothing and removes listed paths only; it returns
\* an error only when a listed path that existed is still there, never for a
\* missing one; when no listed path exists it returns Ok and the disk is as it was.
C19_RemoveSkipsMissing ==
    [][(h.pc = "remove" /\ Len(log') = Len(log) + 1) =>
          LET listed == Range(RemovePaths(cli))
          IN /\ fs' \subseteq fs
             /\ (fs \ fs') \subseteq listed
             /\ last'.outcome = "io_error" => \E path \in listed : path \in fs /\ path \in fs'
             /\ listed \cap fs = {} =>
                   /\ fs' = fs
                   /\ last'.outcome = "ok"
                   /\ h'.ret = Ok]_vars

\* lib.rs: remove returned Ok for a list that names one path twice (at its second
\* turn the path does not exist), and the path no list names is still there.
C19_Witness ==
    /\ cli.rev = "lib"
    /\ Len(cli.remove_paths) = 2
    /\ cli.remove_paths[1] = cli.remove_paths[2]
    /\ LastOp = "remove"
    /\ last.outcome = "ok"
    /\ fs = {Unlisted}

\* ------------------------------------------------------------ startup
Probes == {"probe_wp", "probe_git"}
BothProbes == <<"probe_wp", "probe_git">>

\* C20: in main.rs the loop over the steps is reached only after both probes, wp
\* then git, were run; while a probe is pending no handler has started and
\* nothing but probes was attempted; a probe that could not be run stops the
\* program with a startup failure, after which nothing is attempted; and the
\* program stops this way for no other reason.
C20_ProbesBeforePipeline ==
    cli.rev = "main" =>
        /\ h.pc \in Probes =>
              /\ started = <<>>
              /\ h.step = "none"
              /\ IsPrefix(Ops(log), BothProbes)
        /\ h.pc = "loop" =>
              /\ started = <<>>
              /\ Ops(log) = BothProbes
              /\ last.outcome \in {"0", "1"}
        /\ started # <<>> => h.pc \notin Probes \cup {"loop"}
        /\ (LastOp \in Probes /\ last.outcome = "spawn_error") =>
              /\ result = [status |-> "panic", error |-> LastOp]
              /\ started = <<>>
              /\ ~ENABLED Next
        /\ result.status = "panic" => LastOp \in Probes /\ last.outcome = "spawn_error"

\* main.rs: wp answered, git could not be run; the program stopped before the
\* handler of its first step.
C20_Witness ==
    /\ cli.rev = "main"
    /\ Len(cli.steps) >= 1
    /\ Ops(log) = BothProbes
    /\ last.outcome = "spawn_error"
    /\ result = [status |-> "panic", error |-> "probe_git"]
    /\ started = <<>>

\* ------------------------------------------------------------ commit failures
\* The staging or the commit could not be run.
CommitHookFailed == LastOp \in {"add", "commit"} /\ last.outcome = "spawn_error"

\* C21: when the staging or the commit could not be run, main.rs goes on: the
\* handler has no error and is past the commit hook (at the next item's first
\* operation or returned Ok), the run has no error, and while the run is not over
\* its next operation or step can be taken; lib.rs has returned that error from
\* the handler and from the run, and nothing is attempted any more.
C21_CommitFailureByRevision ==
    CommitHookFailed =>
        IF cli.rev = "main"
        THEN /\ h.ret = Ok
             /\ h.pc \notin {"add", "commit"}
             /\ result.status \in {"running", "ok"}
             /\ Live => ENABLED Next
        ELSE /\ HandlerFailed
             /\ result = [status |-> "err", error |-> LastOp]
             /\ ~ENABLED Next

\* main.rs: a run of two steps ended in success although the commit of its last
\* step could not be run.
C21_Witness ==
    /\ cli.rev = "main"
    /\ Len(cli.steps) = 2
    /\ started = cli.steps
    /\ CommitHookFailed
    /\ result.status = "ok"

\* ------------------------------------------------------------ filesystem failures
\* How many of the attempted operations are among ops.
Cnt(ops) == Len(SelectSeq(log, LAMBDA e : e.op \in ops))

\* C22: a filesystem call that failed is the creation of a backup's parent
\* directory or the removal of a stray path that exists; the handler and the run
\* have returned its error and nothing is attempted any more. After a failed
\* creation the step or item at hand has had no export and no update (every
\* export and every update in the log belongs to an earlier item); after a failed
\* removal it has had no staging and no commit.
C22_FilesystemFailureIsFatal ==
    last.outcome = "io_error" =>
        /\ LastOp \in {"mkdir", "remove"}
        /\ HandlerFailed
        /\ h.ret = LastOp
        /\ result = [status |-> "err", error |-> LastOp]
        /\ ~ENABLED Next
        /\ LastOp = "mkdir" =>
              /\ Cnt({"export"}) = Cnt({"mkdir"}) - 1
              /\ Cnt({"core_update", "item_update", "lang_update", "lang_core"})
                    = Cnt({"mkdir"}) - 1
              /\ h.step = "Core" => Cnt({"deactivate"}) = 0
        /\ LastOp = "remove" =>
              /\ \E path \in Range(RemovePaths(cli)) : path \in fs
              /\ Cnt({"add"}) = IF HasCommit(cli) THEN Cnt({"remove"}) - 1 ELSE 0
              /\ Cnt({"commit"}) <= Cnt({"add"})

\* lib.rs: the stray path the core update left behind could not be removed; the
\* run returned the error and the commit that was asked for was never attempted.
C22_Witness ==
    /\ cli.rev = "lib"
    /\ h.step = "Core"
    /\ ~cli.no_commit
    /\ LastOp = "remove"
    /\ last.outcome = "io_error"
    /\ fs # {}
    /\ result = [status |-> "err", error |-> "remove"]
    /\ Cnt({"add", "commit"}) = 0

\* ------------------------------------------------------------ no retries
\* The operations attempted before and after the mutating update of Core.
UpTo(op) == IF Cnt({op}) = 0 THEN Len(log) ELSE CHOOSE p \in Pos : log[p].op = op /\ \A q \in 1..(p - 1) : log[q].op # op
VersionsBefore(op) == Cardinality({p \in 1..UpTo(op) : log[p].op = "version"})
VersionsAfter(op) == Cardinality({p \in (UpTo(op) + 1)..Len(log) : log[p].op = "version"})

OnceOps ==
    {"plugin_list", "list", "mkdir", "export", "deactivate", "core_update", "activate",
     "lang_update", "lang_core", "lang_theme", "lang_plugin", "remove", "add", "commit"}

\* Every operation but the version query is attempted at most once in a Core or
\* Translations handler and at most once per visited entry of the candidate list
\* in a Plugins or Themes handler, whose list query is its first operation and
\* its only one.
OncePerStepOrEntry ==
    /\ h.step \in {"Core", "Translations"} => \A op \in OnceOps : Cnt({op}) <= 1
    /\ PerItem(h.step) =>
          /\ Cnt({"list"}) <= 1
          /\ \A p \in Pos : log[p].op = "list" <=> p = 1
          /\ h.i <= Len(Items(cli, h))
          /\ \A op \in ItemOps : Cnt({op}) <= h.i
          /\ Cnt({"version", "plugin_list"}) = 0

\* C23 as stated, its first part: every operation, the version query included, is
\* attempted at most once per step or per entry.
C23_EachActionOnce == OncePerStepOrEntry /\ Cnt({"version"}) <= 1

\* The progress of a run: the handlers started, then the operations of the handler
\* at hand, its return and the run's end. RankBase exceeds what one handler adds.
RankBase == 6 * MaxItems + 12
Rank ==
    RankBase * Len(started) + Len(log) + (IF h.pc = "ret" THEN 1 ELSE 0)
        + (IF Live THEN 0 ELSE 2)

\* C23: every operation is attempted at most once per step or per entry of the
\* candidate list, the list being queried once and first, except that a Core step
\* that commits queries the version once before the update and once after it.
\* Every step of a run makes progress and the progress of a run is bounded by the
\* length of its steps list; and, every operation finishing (SpecFair), every run
\* comes to its end, with success or with an error.
C23_NoRetryAndTermination ==
    /\ [](/\ OncePerStepOrEntry
          /\ VersionsBefore("core_update") <= 1
          /\ VersionsAfter("core_update") <= 1
          /\ Cnt({"version"}) > 0 => h.step = "Core" /\ HasCommit(cli))
    /\ [][Rank' > Rank]_vars
    /\ [](Rank <= RankBase * (Len(cli.steps) + 1))
    /\ <>(result.status \in {"ok", "err", "panic"})

\* lib.rs: a run of two steps came to its end with success after a Plugins step
\* over two entries, with one update, one cleanup and one commit for each.
C23_Witness ==
    /\ cli.rev = "lib"
    /\ Len(cli.steps) = 2
    /\ result.status = "ok"
    /\ h.step = "Plugins"
    /\ h.i = 2
    /\ Cnt({"list"}) = 1
    /\ Cnt({"item_update"}) = 2
    /\ Cnt({"remove"}) = 2
    /\ Cnt({"commit"}) = 2

\* ------------------------------------------------------------ core update failure
\* The core update could not be run, after a deactivation that could.
CoreUpdateFailed == LastOp = "core_update" /\ last.outcome = "spawn_error"
Issues(op) == Len(log') = Len(log) + 1 /\ log'[Len(log')].op = op

\* C24: in the Core handler of either revision, when the core update fails after
\* the deactivation, the handler returns the error, the run ends with it, and
\* the handler's operations end with the deactivation of the plugins that were
\* active and the core update: no reactivation, no cleanup, no commit. A
\* reactivation is issued only as the operation after a core update that
\* returned success, and it names the plugins that were deactivated.
C24_NoReactivationAfterFailedUpdate ==
    /\ [](CoreUpdateFailed =>
            /\ h.step = "Core"
            /\ HandlerFailed /\ h.ret = "core_update"
            /\ result = [status |-> "err", error |-> "core_update"]
            /\ ~ENABLED Next
            /\ Len(log) >= 2
            /\ log[Len(log) - 1] = Ev("deactivate", "-", h.active)
            /\ Cnt({"deactivate"}) = 1
            /\ Cnt({"activate", "remove", "add", "commit"}) = 0)
    /\ [][Issues("activate") =>
            /\ h.step = "Core"
            /\ LastOp = "core_update"
            /\ last.outcome \in {"0", "1"}
            /\ log'[Len(log')].arg = log[Len(log) - 1].arg
            /\ log[Len(log) - 1].op = "deactivate"]_vars

\* lib.rs: the plugin that was active was deactivated, the core update could not
\* be run, and the run ended with that error, the plugin not reactivated.
C24_Witness ==
    /\ cli.rev = "lib"
    /\ CoreUpdateFailed
    /\ h.active = <<"foo">>
    /\ Cnt({"deactivate"}) = 1
    /\ Cnt({"activate"}) = 0
    /\ result = [status |-> "err", error |-> "core_update"]

====
